---- MODULE Spec2Model ----
(***************************************************************************)
(* A model of the two components of the repository:                        *)
(*   src/ai/feature_ingest_example.py  build_token_features                *)
(*   src/ai/simple_model.py            generate_synthetic and __main__     *)
(*                                                                         *)
(* Text is held as a sequence of chunks: a chunk is one character ("a",    *)
(* "'") or one fragment of SQL that the lexer treats as a unit.  Numbers   *)
(* with a fractional part are held in fixed point; the unit is stated at   *)
(* each definition.  Floating-point rounding is not modelled.              *)
(***************************************************************************)
EXTENDS Integers, Sequences, FiniteSets, TLC

VARIABLES
    store,     \* rows of order_filled_events, in insertion order
    now,       \* the clock of the store, in ticks
    op,        \* the step that was taken last
    arg,       \* the arguments of the last call
    df,        \* the frame read_sql handed to the last call
    ret,       \* what the last call gave back to its caller
    storeErr,  \* the failure the store raised during the last call, or "none"
    attempts,  \* how many times the last call ran its query
    rng,       \* the state of numpy's global generator in the running process
    gen,       \* the (X, y) the last generate_synthetic call returned
    stdout     \* the lines __main__ has printed, one per run

vars == <<store, now, op, arg, df, ret, storeErr, attempts, rng, gen, stdout>>

extractorVars == <<store, now, arg, df, ret, storeErr, attempts>>
scorerVars == <<rng, gen, stdout>>

-----------------------------------------------------------------------------
(* Bounds of the model *)

MaxEvents == 2      \* rows the store holds at most in Spec
MaxNow == 3         \* the last tick of the clock in Spec
MaxWindow == 2      \* the largest window_days a call passes
MaxAmount == 2      \* the largest raw amount_in of one event
TicksPerDay == 2    \* clock ticks in one calendar day
MaxSamples == 3     \* the largest n a caller passes to generate_synthetic
MainSamples == 5    \* the sample count of __main__ in the model (2000 in the script)
MaxRuns == 2        \* runs of the script that are compared
RngModulus == 32    \* states of the pseudo-random generators
MaxDay == 9         \* the last calendar day of the stores of SpecRolling

-----------------------------------------------------------------------------
(* Text of the query, feature_ingest_example.py lines 12-16 *)

Quote == "'"
Comment == "--"
OrTrue == " OR TRUE "
Stacked == "; DELETE FROM order_filled_events; COMMIT "
AndTime == " AND block_time > now() - interval "
Days == "{window_days} days"

\* The token_address values the calls pass: the addresses the indexer knows,
\* an address with no events, and addresses that hold quote characters or SQL.
Identifiers ==
    { <<"a">>, <<"b">>, <<"c">>,
      <<Quote>>,
      <<Quote, Quote>>,
      <<"a", Quote, Comment>>,
      <<"c", Quote, OrTrue, Comment>>,
      <<"a", Quote, OrTrue>>,
      <<"c", Quote, Stacked, Comment>> }

\* The asset identifiers the indexer writes into token_in.
Tokens == {<<"a">>, <<"b">>}

\* The f-string of lines 12-16 from the opening quote of the first literal on:
\* '{token_address}' AND block_time > now() - interval '{window_days} days'
QueryText(token_address) ==
    <<Quote>> \o token_address \o <<Quote, AndTime, Quote, Days, Quote>>

-----------------------------------------------------------------------------
(* What the store does with the text: PostgreSQL's lexer and parser, on the *)
(* fragment of SQL the chunks can spell.  Reached through pd.read_sql,       *)
(* feature_ingest_example.py line 17.                                        *)

Str(lit) == [t |-> "str", v |-> lit]
Sym(c) == [t |-> "sym", v |-> <<c>>]
Unterminated == [t |-> "unterminated", v |-> <<>>]

\* A quote opens a literal; inside a literal two quotes in a row are one
\* quote character and a single quote closes it; outside a literal "--"
\* drops the rest of the line, which is the rest of the statement.
RECURSIVE LexFrom(_, _, _, _, _)
LexFrom(q, i, inStr, lit, out) ==
    IF i > Len(q) THEN (IF inStr THEN Append(out, Unterminated) ELSE out)
    ELSE IF inStr THEN
        IF q[i] = Quote THEN
            IF i < Len(q) /\ q[i + 1] = Quote
            THEN LexFrom(q, i + 2, TRUE, Append(lit, Quote), out)
            ELSE LexFrom(q, i + 1, FALSE, <<>>, Append(out, Str(lit)))
        ELSE LexFrom(q, i + 1, TRUE, Append(lit, q[i]), out)
    ELSE IF q[i] = Quote THEN LexFrom(q, i + 1, TRUE, <<>>, out)
    ELSE IF q[i] = Comment THEN out
    ELSE LexFrom(q, i + 1, FALSE, <<>>, Append(out, Sym(q[i])))

Lex(q) == LexFrom(q, 1, FALSE, <<>>, <<>>)

\* One conjunction of the WHERE clause: which of the two tests it holds.
Conj(byToken, byTime) == [byToken |-> byToken, byTime |-> byTime]

SyntaxError == [ok |-> FALSE, lit |-> <<>>, conjs |-> <<>>, writes |-> FALSE]

\* WHERE token_in = <literal> { OR TRUE | AND block_time > now() - interval
\* <literal> } [ ; DELETE FROM order_filled_events ; COMMIT ]
\* AND binds tighter than OR: the clause is a disjunction of conjunctions.
RECURSIVE ParseFrom(_, _, _, _, _)
ParseFrom(toks, i, lit, done, cur) ==
    IF i > Len(toks)
    THEN [ok |-> TRUE, lit |-> lit, conjs |-> Append(done, cur), writes |-> FALSE]
    ELSE IF toks[i] = Sym(OrTrue)
    THEN ParseFrom(toks, i + 1, lit, Append(done, cur), Conj(FALSE, FALSE))
    ELSE IF toks[i] = Sym(AndTime) /\ i < Len(toks) /\ toks[i + 1] = Str(<<Days>>)
    THEN ParseFrom(toks, i + 2, lit, done, Conj(cur.byToken, TRUE))
    ELSE IF toks[i] = Sym(Stacked) /\ i = Len(toks)
    THEN [ok |-> TRUE, lit |-> lit, conjs |-> Append(done, cur), writes |-> TRUE]
    ELSE SyntaxError

Parse(toks) ==
    IF Len(toks) >= 1 /\ toks[1].t = "str"
    THEN ParseFrom(toks, 2, toks[1].v, <<>>, Conj(TRUE, FALSE))
    ELSE SyntaxError

\* block_time > now() - interval '{window_days} days', line 15
InWindow(block_time, window_days, t) == block_time > t - window_days * TicksPerDay

Matches(row, stmt, window_days, t) ==
    \E k \in 1..Len(stmt.conjs) :
        /\ stmt.conjs[k].byToken => row.token_in = stmt.lit
        /\ stmt.conjs[k].byTime => InWindow(row.block_time, window_days, t)

\* amount_in::numeric/1e18: a decimal with Scale digits after the point,
\* held as its digits.
Scale == 18
Numeric(digits) == [digits |-> digits, scale |-> Scale]

\* SELECT block_time, amount_in::numeric/1e18 as amount_in, line 13
SelectList(row) == [block_time |-> row.block_time, amount_in |-> Numeric(row.amount_in)]

RECURSIVE SelectRows(_, _, _, _)
SelectRows(rows, stmt, window_days, t) ==
    IF rows = <<>> THEN <<>>
    ELSE LET rest == SelectRows(Tail(rows), stmt, window_days, t)
         IN  IF Matches(Head(rows), stmt, window_days, t)
             THEN <<SelectList(Head(rows))>> \o rest
             ELSE rest

\* The outcome of sending the text to the store: the failure raised ("none"
\* when there is none), the rows handed back, and the table afterwards.  The
\* whole text is parsed before any statement runs.  A text whose last
\* statement is not a SELECT hands back no result set, which read_sql raises.
Execute(q, window_days, rows, t) ==
    LET stmt == Parse(Lex(q))
    IN  IF ~stmt.ok
        THEN [err |-> "ProgrammingError", rows |-> <<>>, store |-> rows]
        ELSE IF stmt.writes
        THEN [err |-> "ResourceClosedError", rows |-> <<>>, store |-> <<>>]
        ELSE [err |-> "none", rows |-> SelectRows(rows, stmt, window_days, t),
              store |-> rows]

\* pd.read_sql(q, engine), line 17: `fault` is the failure of the connection,
\* "none" when the store is reachable.
ReadSql(q, window_days, rows, t, fault) ==
    IF fault # "none"
    THEN [err |-> fault, rows |-> <<>>, store |-> rows]
    ELSE Execute(q, window_days, rows, t)

-----------------------------------------------------------------------------
(* The dataframe steps, feature_ingest_example.py lines 18-23 *)

Max(a, b) == IF a >= b THEN a ELSE b
Min(a, b) == IF a <= b THEN a ELSE b

\* pd.to_datetime(df['block_time']).dt.date, line 20: the calendar day.
Day(block_time) == block_time \div TicksPerDay

\* The keys of groupby('day'), line 21, which sorts them ascending.
RECURSIVE SortedKeys(_)
SortedKeys(S) ==
    IF S = {} THEN <<>>
    ELSE LET least == CHOOSE x \in S : \A y \in S : x <= y
         IN  <<least>> \o SortedKeys(S \ {least})

\* .sum() of one group, line 21: the amounts of the rows of that day, added
\* in row order.
RECURSIVE GroupSum(_, _)
GroupSum(frame, day) ==
    IF frame = <<>> THEN 0
    ELSE (IF Day(Head(frame).block_time) = day THEN Head(frame).amount_in.digits ELSE 0)
         + GroupSum(Tail(frame), day)

\* df.groupby('day').sum().reset_index(), line 21
GroupByDaySum(frame) ==
    LET keys == SortedKeys({Day(frame[i].block_time) : i \in 1..Len(frame)})
    IN  [k \in 1..Len(keys) |->
            [day |-> keys[k], amount_in |-> Numeric(GroupSum(frame, keys[k]))]]

\* rolling(7, min_periods=1), line 22
Window == 7

\* Mutant of MinPeriods: min_periods left out, which pandas reads as the
\* length of the window.
MinPeriodsLeftOut == Window

MinPeriods == 1

\* A mean is held as the quotient num/den of a sum of decimals by a count;
\* den = 0 is the missing value (NaN).
Mean(sum, nobs) == [num |-> sum, den |-> nobs, scale |-> Scale]
NaN == [num |-> 0, den |-> 0, scale |-> Scale]

\* Mutant of WindowStart: a window one row too long.
WindowStartOffByOne(i) == Max(0, i - Window - 1)

\* The rows before the window of row i: the window is WindowStart(i)+1 .. i.
WindowStart(i) == Max(0, i - Window)

\* .mean() over the rolling window, line 22, the way pandas computes it: a
\* running sum and count, the entering value added and the leaving value
\* removed at each row.
RECURSIVE RollFrom(_, _, _, _, _)
RollFrom(values, i, sum, nobs, out) ==
    IF i > Len(values) THEN out
    ELSE LET leaves == WindowStart(i) > WindowStart(i - 1)
             sum2 == sum + values[i] - (IF leaves THEN values[WindowStart(i)] ELSE 0)
             nobs2 == nobs + 1 - (IF leaves THEN 1 ELSE 0)
             val == IF nobs2 >= MinPeriods THEN Mean(sum2, nobs2) ELSE NaN
         IN  RollFrom(values, i + 1, sum2, nobs2, Append(out, val))

RollingMean(values) == RollFrom(values, 1, 0, 0, <<>>)

\* daily['rolling_7'] = <series>, line 22: the series is aligned on the index
\* of the frame; a row the series has no value for gets the missing value.
AssignRolling7(daily, series) ==
    [i \in 1..Len(daily) |->
        [day |-> daily[i].day, amount_in |-> daily[i].amount_in,
         rolling_7 |-> IF i \in DOMAIN series THEN series[i] ELSE NaN]]

\* Lines 18-23 on the frame read_sql returned.
Features(frame) ==
    IF frame = <<>> THEN <<>>
    ELSE LET daily == GroupByDaySum(frame)
             amounts == [i \in 1..Len(daily) |-> daily[i].amount_in.digits]
         IN  AssignRolling7(daily, RollingMean(amounts))

-----------------------------------------------------------------------------
(* build_token_features, feature_ingest_example.py lines 11-23 *)

Returned(rows) == [kind |-> "returned", exc |-> "none", rows |-> rows]
Raised(exc) == [kind |-> "raised", exc |-> exc, rows |-> <<>>]
NoCall == [kind |-> "none", exc |-> "none", rows |-> <<>>]
NoArg == [token_address |-> <<>>, window_days |-> 0]

\* Mutant of OnReadFailure: the failure caught and an empty frame returned.
OnReadFailureSwallowed(exc) == Returned(<<>>)

\* Line 17 stands in no try block: what read_sql raises leaves the function.
OnReadFailure(exc) == Raised(exc)

\* The failures of the connection a call can meet.
Faults == {"none", "OperationalError"}

BuildTokenFeatures(token_address, window_days, fault) ==
    LET q == QueryText(token_address)
        r == ReadSql(q, window_days, store, now, fault)
    IN  /\ op # "build_token_features"
        /\ op' = "build_token_features"
        /\ arg' = [token_address |-> token_address, window_days |-> window_days]
        /\ attempts' = 1
        /\ storeErr' = r.err
        /\ store' = r.store
        /\ df' = r.rows
        /\ ret' = IF r.err # "none" THEN OnReadFailure(r.err) ELSE Returned(Features(r.rows))
        /\ UNCHANGED <<now, scorerVars>>

-----------------------------------------------------------------------------
(* The environment of the extractor: the indexer that fills the table and  *)
(* the clock of the store.                                                  *)

Event(token_in, block_time, amount_in) ==
    [token_in |-> token_in, block_time |-> block_time, amount_in |-> amount_in]

\* The indexer writes the fill of the block mined now.
Ingest(token_in, amount_in) ==
    /\ Len(store) < MaxEvents
    /\ store' = Append(store, Event(token_in, now, amount_in))
    /\ op' = "ingest"
    /\ arg' = NoArg
    /\ df' = <<>>
    /\ ret' = NoCall
    /\ storeErr' = "none"
    /\ attempts' = 0
    /\ UNCHANGED <<now, scorerVars>>

Tick ==
    /\ now < MaxNow
    /\ now' = now + 1
    /\ op' = "tick"
    /\ arg' = NoArg
    /\ df' = <<>>
    /\ ret' = NoCall
    /\ storeErr' = "none"
    /\ attempts' = 0
    /\ UNCHANGED <<store, scorerVars>>

\* return, lines 19 and 23: the caller has the result and goes on; the next
\* call starts only then (the functions are synchronous).
Continue ==
    /\ op = "build_token_features"
    /\ op' = "idle"
    /\ arg' = NoArg
    /\ df' = <<>>
    /\ ret' = NoCall
    /\ storeErr' = "none"
    /\ attempts' = 0
    /\ UNCHANGED <<store, now, scorerVars>>

\* No (X, y) has been generated.
NoData == [X |-> <<>>, y |-> <<>>]

Init ==
    /\ store = <<>>
    /\ now = 0
    /\ op = "init"
    /\ arg = NoArg
    /\ df = <<>>
    /\ ret = NoCall
    /\ storeErr = "none"
    /\ attempts = 0
    /\ rng = 0
    /\ gen = NoData
    /\ stdout = <<>>

Next ==
    \/ \E token_in \in Tokens, amount_in \in 1..MaxAmount : Ingest(token_in, amount_in)
    \/ Tick
    \/ Continue
    \/ \E token_address \in Identifiers, window_days \in 1..MaxWindow, fault \in Faults :
            BuildTokenFeatures(token_address, window_days, fault)

Spec == Init /\ [][Next]_vars

-----------------------------------------------------------------------------
(* The rolling mean on long histories: every store that holds events of   *)
(* asset "a" on some of the calendar days 0..MaxDay (one event a day, two   *)
(* on every third day), read at the end of the last day.                    *)

DayAmount(day) == 1 + (day % MaxAmount)

RECURSIVE HistoryFrom(_, _)
HistoryFrom(present, day) ==
    IF day > MaxDay THEN <<>>
    ELSE (CASE day \notin present -> <<>>
            [] day \in present /\ day % 3 # 0 ->
                    <<Event(<<"a">>, day * TicksPerDay, DayAmount(day))>>
            [] OTHER -> <<Event(<<"a">>, day * TicksPerDay, DayAmount(day)),
                          Event(<<"a">>, day * TicksPerDay + TicksPerDay - 1, MaxAmount)>>)
         \o HistoryFrom(present, day + 1)

InitRolling ==
    /\ \E present \in SUBSET (0..MaxDay) : store = HistoryFrom(present, 0)
    /\ now = (MaxDay + 1) * TicksPerDay - 1
    /\ op = "idle"
    /\ arg = NoArg
    /\ df = <<>>
    /\ ret = NoCall
    /\ storeErr = "none"
    /\ attempts = 0
    /\ rng = 0
    /\ gen = NoData
    /\ stdout = <<>>

NextRolling == \E window_days \in {MaxWindow, MaxDay + 1} :
                    BuildTokenFeatures(<<"a">>, window_days, "none")

SpecRolling == InitRolling /\ [][NextRolling]_vars

-----------------------------------------------------------------------------
(* numpy's generators, simple_model.py lines 15-20 and 23.  A generator is  *)
(* a state that each draw reads and advances; the sequence of states is a   *)
(* linear congruential one here.  The global generator of a process is      *)
(* seeded from the entropy of the operating system when numpy is imported   *)
(* (line 6): no line of the module seeds it.                                *)

NextRng(s) == (5 * s + 3) % RngModulus

RECURSIVE Advance(_, _)
Advance(s, k) ==
    IF k = 0 THEN s
    ELSE IF k = 1 THEN NextRng(s)
    ELSE LET half == k \div 2
             mid == Advance(s, half)
         IN  \* the test has the state computed before it is passed on
             IF mid \in 0..RngModulus - 1 THEN Advance(mid, k - half) ELSE mid

\* Standard normal deviates, as whole numbers of standard deviations.
StdNormal == <<0, -1, 1, -2, 2, -3, 3, -4, 4, -8, 8, 0, 1, -1, 5, -5>>

\* Standard exponential deviates, in thousandths.
StdExponential == <<0, 100, 500, 1000, 2000, 3000>>

Pick(table, s) == table[(s % Len(table)) + 1]

\* np.random.normal(loc, scale): in the unit of loc and scale.
Normal(loc, scale, s) == loc + scale * Pick(StdNormal, s)

\* np.random.exponential(scale): scale and result in thousandths.
Exponential(scale, s) == (scale * Pick(StdExponential, s)) \div 1000

\* Mutant of Clip: the upper limit alone.
ClipUpperOnly(x, lo, hi) == Min(x, hi)

\* .clip(lo, hi), lines 17-19
Clip(x, lo, hi) == Min(Max(x, lo), hi)

\* np.log1p on the values Exponential gives, argument and result in
\* thousandths.
Log1p(x) ==
    CASE x <= 0 -> 0
      [] x > 0 /\ x <= 50 -> 49
      [] x > 50 /\ x <= 100 -> 95
      [] x > 100 /\ x <= 250 -> 223
      [] x > 250 /\ x <= 500 -> 405
      [] x > 500 /\ x <= 1000 -> 693
      [] x > 1000 /\ x <= 1500 -> 916
      [] x > 1500 /\ x <= 2000 -> 1099
      [] OTHER -> 1386

\* The state the draw of sample i of column `col` (0-based) reads, when the
\* columns are drawn one after the other, n values each, from state s.
DrawState(s, n, col, i) == Advance(s, col * n + i - 1)

\* One row of X, lines 14-21.  liquidity and turnover in thousandths,
\* avg_hold_days in days, the three rates in thousandths.
Sample(s, n, i) ==
    [liquidity |-> Exponential(1000, DrawState(s, n, 0, i)),
     turnover |-> Exponential(500, DrawState(s, n, 1, i)),
     avg_hold_days |-> Clip(Normal(180, 60, DrawState(s, n, 2, i)), 1, 3650),
     rental_yield |-> Clip(Normal(50, 20, DrawState(s, n, 3, i)), 0, 200),
     cap_rate |-> Clip(Normal(60, 15, DrawState(s, n, 4, i)), 10, 200),
     local_index_change |-> Normal(0, 50, DrawState(s, n, 5, i))]

\* The target of a row, line 23, in ten-thousandths:
\* 0.5*local_index_change + 0.2*rental_yield - 0.1*cap_rate
\*   + 0.05*log1p(liquidity) + normal(0, 0.02)
Target(x, s, n, i) ==
    5 * x.local_index_change + 2 * x.rental_yield - x.cap_rate
        + Log1p(x.liquidity) \div 2 + 10 * Normal(0, 20, DrawState(s, n, 6, i))

\* generate_synthetic(n) run on generator state s: (X, y) and the state the
\* generator is left in, lines 12-24.
Synthetic(s, n) ==
    LET X == [i \in 1..n |-> Sample(s, n, i)]
    IN  [X |-> X, y |-> [i \in 1..n |-> Target(X[i], s, n, i)], rng |-> Advance(s, 7 * n)]

\* import numpy, line 6, in a new interpreter: the global generator starts
\* from the entropy of the operating system.
Import(entropy) ==
    /\ op' = "import"
    /\ rng' = entropy
    /\ gen' = NoData
    /\ UNCHANGED <<extractorVars, stdout>>

GenerateSynthetic(n) ==
    LET r == Synthetic(rng, n)
    IN  /\ op \in {"import", "generate_synthetic"}
        /\ op' = "generate_synthetic"
        /\ gen' = [X |-> r.X, y |-> r.y]
        /\ rng' = r.rng
        /\ UNCHANGED <<extractorVars, stdout>>

-----------------------------------------------------------------------------
(* The script, simple_model.py lines 26-32 *)

RandomState == 42
NEstimators == 100

\* random_state=42 makes a generator of its own, apart from the global one.
Seeded(seed) == seed % RngModulus

\* rng.permutation(n) by exchanges from the last place down.
RECURSIVE Shuffle(_, _, _)
Shuffle(perm, i, s) ==
    IF i <= 1 THEN perm
    ELSE LET j == 1 + (s % i)
             swapped == [perm EXCEPT ![i] = perm[j], ![j] = perm[i]]
         IN  Shuffle(swapped, i - 1, NextRng(s))

\* ceil(0.2 * n), the size of the test part for test_size=0.2
TestSize(n) == (2 * n + 9) \div 10

\* train_test_split(X, y, test_size=0.2, random_state=42), line 28: the
\* indices of the test part and of the train part.
TrainTestSplit(n) ==
    LET perm == Shuffle([i \in 1..n |-> i], n, Seeded(RandomState))
        nTest == TestSize(n)
    IN  [test |-> [k \in 1..nTest |-> perm[k]],
         train |-> [k \in 1..n - nTest |-> perm[nTest + k]]]

RECURSIVE SumBetween(_, _, _)
SumBetween(q, lo, hi) ==
    IF lo > hi THEN 0
    ELSE IF lo = hi THEN q[lo]
    ELSE LET mid == (lo + hi) \div 2
         IN  SumBetween(q, lo, mid) + SumBetween(q, mid + 1, hi)

SumSeq(q) == SumBetween(q, 1, Len(q))

\* The mean of a sequence of whole numbers, rounded down.
MeanOf(q) == SumSeq(q) \div Len(q)

\* One tree of the forest: it is fit on a bootstrap sample of the train part
\* drawn by its own generator and predicts from that sample.  The search for
\* splits is not modelled: the tree predicts the mean of its sample.
TreePredict(yTrain, t) ==
    LET s0 == Advance(Seeded(RandomState), t)
        boot == [k \in 1..Len(yTrain) |-> yTrain[1 + (Advance(s0, k) % Len(yTrain))]]
    IN  MeanOf(boot)

\* model.fit and model.predict, lines 29-31: the mean over the trees.
ForestPredict(yTrain) ==
    MeanOf([tree \in 1..NEstimators |-> TreePredict(yTrain, tree)])

RECURSIVE IsqrtFrom(_, _)
IsqrtFrom(x, r) == IF (r + 1) * (r + 1) > x THEN r ELSE IsqrtFrom(x, r + 1)

RECURSIVE Isqrt(_)
Isqrt(x) == IF x < 4 THEN IsqrtFrom(x, 0)
            ELSE LET half == 2 * Isqrt(x \div 4) IN IsqrtFrom(x, half)

\* mean_squared_error(y_test, preds, squared=False), line 32, in
\* ten-thousandths, rounded down.
Rmse(y, split) ==
    LET yTrain == [k \in 1..Len(split.train) |-> y[split.train[k]]]
        pred == ForestPredict(yTrain)
        errs == [k \in 1..Len(split.test) |->
                    (y[split.test[k]] - pred) * (y[split.test[k]] - pred)]
    IN  Isqrt(MeanOf(errs))

\* One run of the script in a process of its own, whose global generator the
\* import seeds with `entropy`.
Main(entropy) ==
    LET r == Synthetic(entropy, MainSamples)
    IN  /\ Len(stdout) < MaxRuns
        /\ op' = "main"
        /\ gen' = [X |-> r.X, y |-> r.y]
        /\ rng' = r.rng
        /\ stdout' = Append(stdout, Rmse(r.y, TrainTestSplit(MainSamples)))
        /\ UNCHANGED extractorVars

\* Before any interpreter runs.
InitScorer ==
    /\ store = <<>>
    /\ now = 0
    /\ op = "start"
    /\ arg = NoArg
    /\ df = <<>>
    /\ ret = NoCall
    /\ storeErr = "none"
    /\ attempts = 0
    /\ rng = 0
    /\ gen = NoData
    /\ stdout = <<>>

\* An interpreter session that imports the module and calls the function.
NextScorer ==
    \/ \E entropy \in 0..RngModulus - 1 : Import(entropy)
    \/ \E n \in 1..MaxSamples : GenerateSynthetic(n)

SpecScorer == InitScorer /\ [][NextScorer]_vars

\* Runs of the script, one process after the other.
NextMain == \E entropy \in 0..RngModulus - 1 : Main(entropy)

SpecMain == InitScorer /\ [][NextMain]_vars

-----------------------------------------------------------------------------
(* Claims about build_token_features *)

IsCall(o) == o = "build_token_features"

\* The rows of `rows` (by position) that are events of asset `id` with a
\* timestamp after t - window_days days and not after t.
AssetEvents(rows, id, window_days, t) ==
    {i \in 1..Len(rows) :
        /\ rows[i].token_in = id
        /\ rows[i].block_time > t - window_days * TicksPerDay
        /\ rows[i].block_time <= t}

RECURSIVE TotalOf(_, _)
TotalOf(rows, S) ==
    IF S = {} THEN 0
    ELSE LET i == CHOOSE j \in S : TRUE
         IN  rows[i].amount_in + TotalOf(rows, S \ {i})

OnDay(rows, S, day) == {i \in S : Day(rows[i].block_time) = day}

\* R is the daily aggregate of the events S of rows: one row per date that
\* has an event, no other row, dates ascending, each amount the sum of the
\* amounts of that date's events.
IsDailyAggregate(R, rows, S) ==
    /\ {R[k].day : k \in 1..Len(R)} = {Day(rows[i].block_time) : i \in S}
    /\ \A k \in 1..Len(R) - 1 : R[k].day < R[k + 1].day
    /\ \A k \in 1..Len(R) :
            R[k].amount_in = Numeric(TotalOf(rows, OnDay(rows, S, R[k].day)))

\* C1: for every asset identifier, window W > 0 and store, what a call
\* returns is exactly one row per calendar date that has an event of that
\* asset inside the window and no other row, sorted by date ascending, each
\* amount the sum of that asset's events of that date.
C1_DailyAggregates ==
    [][ (IsCall(op') /\ storeErr' = "none")
        => /\ ret'.kind = "returned"
           /\ IsDailyAggregate(ret'.rows, store,
                AssetEvents(store, arg'.token_address, arg'.window_days, now)) ]_vars

\* C3: for every window W > 0 and every asset identifier, when the store
\* holds no event of that asset inside the window, the call returns an empty
\* sequence and signals no error.
C3_EmptyWhenNoEvents ==
    [][ ( /\ IsCall(op') /\ storeErr' # "OperationalError"
          /\ AssetEvents(store, arg'.token_address, arg'.window_days, now) = {} )
        => ret' = Returned(<<>>) ]_vars

\* The frame that holds exactly the events S of rows, in row order.
RECURSIVE FrameOf(_, _, _)
FrameOf(rows, S, i) ==
    IF i > Len(rows) THEN <<>>
    ELSE (IF i \in S THEN <<SelectList(rows[i])>> ELSE <<>>) \o FrameOf(rows, S, i + 1)

\* C5: the identifier is the filter, verbatim: for every identifier, also one
\* that holds quote characters or SQL text, the events that are aggregated
\* are exactly the stored events whose token_in equals the identifier (inside
\* the window), and no event of another asset is included.
C5_IdentifierVerbatim ==
    [][ IsCall(op')
        => df' = FrameOf(store,
                    AssetEvents(store, arg'.token_address, arg'.window_days, now), 1) ]_vars

\* C6: the call only reads the store: its contents after the call are its
\* contents before the call.
C6_StoreReadOnly == [][ IsCall(op') => store' = store ]_vars

\* C7: when the connection or the query fails, the call raises that failure
\* unchanged, after exactly one attempt, with no rows in place of it.
C7_FailurePropagates ==
    (IsCall(op) /\ storeErr # "none")
        => /\ ret = Raised(storeErr)
           /\ attempts = 1

\* C7 witness: a call on a store that holds events met a connection failure.
C7_Witness ==
    /\ IsCall(op) /\ storeErr = "OperationalError"
    /\ AssetEvents(store, arg.token_address, arg.window_days, now) # {}
    /\ ret.kind = "raised"

RECURSIVE SumRange(_, _, _)
SumRange(R, lo, hi) ==
    IF lo > hi THEN 0 ELSE R[lo].amount_in.digits + SumRange(R, lo + 1, hi)

\* C2: in a result, rolling_7 of row i is the mean of the amounts of rows
\* max(1, i-6) .. i: the up-to-7 most recent rows present; days without
\* events are neither filled in nor counted.
C2_RollingMean ==
    ret.kind = "returned"
        => \A i \in 1..Len(ret.rows) :
                LET lo == IF i - 6 >= 1 THEN i - 6 ELSE 1
                IN  ret.rows[i].rolling_7 = Mean(SumRange(ret.rows, lo, i), i - lo + 1)

\* C2 witness: a result of at least 8 rows with a calendar gap inside the
\* window of its last row, and a row made of two events.
C2_Witness ==
    /\ IsCall(op) /\ ret.kind = "returned" /\ Len(ret.rows) >= 8
    /\ \E i \in Len(ret.rows) - 6 .. Len(ret.rows) - 1 :
            ret.rows[i + 1].day > ret.rows[i].day + 1
    /\ Len(df) > Len(ret.rows)

\* C4: every row of a result carries a rolling_7 value, none missing: the
\* rolling means are as many as the daily aggregates.
C4_RollingSameLength ==
    ret.kind = "returned"
        => \A i \in 1..Len(ret.rows) : ret.rows[i].rolling_7.den >= 1

\* C4 witness: a result with fewer rows than the window is long.
C4_Witness ==
    /\ IsCall(op) /\ ret.kind = "returned"
    /\ Len(ret.rows) >= 1 /\ Len(ret.rows) < 7

-----------------------------------------------------------------------------
(* Claims about generate_synthetic and the script *)

\* C8: the scorer is deterministic: two separate runs of the script, with
\* the same fixed seeds, print identical RMSE.
C8_SameRmse == Len(stdout) >= 2 => stdout[1] = stdout[2]

\* C9: for every n > 0 and every outcome of the draws, every sample has
\* rental_yield in [0, 0.2], cap_rate in [0.01, 0.2] and avg_hold_days in
\* [1, 3650].
C9_ClippedRanges ==
    \A i \in 1..Len(gen.X) :
        /\ gen.X[i].rental_yield >= 0 /\ gen.X[i].rental_yield <= 200
        /\ gen.X[i].cap_rate >= 10 /\ gen.X[i].cap_rate <= 200
        /\ gen.X[i].avg_hold_days >= 1 /\ gen.X[i].avg_hold_days <= 3650

\* C9 witness: a call returned samples whose draws fell below each of the
\* three lower limits, and one whose rental_yield draw reached the upper one.
C9_Witness ==
    /\ op = "generate_synthetic"
    /\ \E i \in 1..Len(gen.X) : gen.X[i].rental_yield = 0
    /\ \E i \in 1..Len(gen.X) : gen.X[i].cap_rate = 10
    /\ \E i \in 1..Len(gen.X) : gen.X[i].avg_hold_days = 1

\* C10: no state is shared between invocations: a call's result depends on
\* its arguments only, never on the calls that ran before it in the process,
\* so two calls of generate_synthetic with the same n, one right after the
\* other, return the same.
C10_NoSharedState ==
    [][ ( /\ op = "generate_synthetic" /\ op' = "generate_synthetic"
          /\ Len(gen'.X) = Len(gen.X) )
        => gen' = gen ]_vars

====
